---- MODULE Spec2Model ----
(***************************************************************************)
(* Model of the Elasticsearch snapshot collector                           *)
(* (inputs/elasticsearch/collector/snapshots.go): the descriptor lists     *)
(* built by NewSnapshots, the fetcher getAndParseURL, the pipeline         *)
(* fetchAndDecodeSnapshotsStats and the two collector entry points         *)
(* Describe and Collect.                                                   *)
(*                                                                         *)
(* A URL path is a rooted sequence of path segments.  A JSON body is a     *)
(* record [wellFormed, value]: value is what json.Unmarshal stores in the  *)
(* destination; a body that is not well formed is a syntax error (value    *)
(* empty, destination untouched) or valid JSON that does not match the     *)
(* destination type (value = the part stored before the error is           *)
(* returned).  float64(n) is exact for the integers used here              *)
(* (|n| < 2^53), so metric values are integers.                            *)
(***************************************************************************)
EXTENDS Integers, Sequences, FiniteSets, TLC

\* ------------------------------------------------------------------ bounds
MaxCycles == 2       \* Collect invocations per caller
MaxDescribe == 2     \* Describe invocations
MaxLen == 2          \* snapshots per repository in a detail response
MaxStatsLen == 3     \* snapshots per sequence given to the Value functions

\* ------------------------------------------------------------- input data
Procs == {1, 2}
\* A repository name is the sequence of its tokens: the separator "/" and the
\* runs of other characters between separators ("R1" is <<"R1">>, "R1/." is
\* <<"R1", "/", ".">>, the empty name is <<>>).
Name(s) == <<s>>

Repos == {Name("R1"), Name("R2")}
BasePath == <<"es">>

States == {"SUCCESS", "PARTIAL", "FAILED"}
Starts == {100, 1999, -1500}

Shards(t, f, s) == [Total |-> t, Failed |-> f, Successful |-> s]

\* SnapshotStatDataResponse: the fields the collector reads
Snap(state, version, start, end, indices, failures, shards) ==
  [State |-> state, Version |-> version, StartTimeInMillis |-> start,
   EndTimeInMillis |-> end, Indices |-> indices, Failures |-> failures,
   Shards |-> shards]

\* records that differ only in State and StartTimeInMillis
StatRecords ==
  { Snap(st, "8.1.0", t, t + 500, <<"idx">>, <<>>, Shards(1, 0, 1)) :
      st \in States, t \in Starts }

SnapFailed ==
  Snap("FAILED", "7.17.0", 3999, 5000, <<"a", "b">>, <<"f1">>, Shards(4, 3, 1))
SnapSuccess ==
  Snap("SUCCESS", "8.1.0", 2000, 2999, <<"a">>, <<>>, Shards(2, 0, 2))
SnapRecords == {SnapFailed, SnapSuccess}

SeqsUpTo(S, n) == UNION { [1..k -> S] : k \in 0..n }

\* --------------------------------------------------------------- helpers
\* Go's integer division truncates toward zero
DivTrunc(a, b) ==
  IF a >= 0 THEN a \div b ELSE -((-a) \div b)

Float64(n) == n

HttpStatusOK == 200

\* ------------------------------------------------------ descriptor lists
defaultSnapshotLabels == <<"repository", "state", "version">>
defaultSnapshotRepositoryLabels == <<"repository">>

\* label values without the version
defaultSnapshotLabelValuesShort(repositoryName, snapshotStats) ==
  <<repositoryName, snapshotStats.State>>

defaultSnapshotLabelValues(repositoryName, snapshotStats) ==
  <<repositoryName, snapshotStats.State, snapshotStats.Version>>

defaultSnapshotRepositoryLabelValues(repositoryName) ==
  <<repositoryName>>

Metric(name, labels) == [Type |-> "gauge", Desc |-> name, LabelNames |-> labels]

\* the Snapshots struct built by NewSnapshots: the two descriptor lists
NewSnapshots ==
  [snapshotMetrics |->
     << Metric("snapshot_number_of_indices", defaultSnapshotLabels),
        Metric("snapshot_start_time_timestamp", defaultSnapshotLabels),
        Metric("snapshot_end_time_timestamp", defaultSnapshotLabels),
        Metric("snapshot_number_of_failures", defaultSnapshotLabels),
        Metric("snapshot_total_shards", defaultSnapshotLabels),
        Metric("snapshot_failed_shards", defaultSnapshotLabels),
        Metric("snapshot_successful_shards", defaultSnapshotLabels) >>,
   repositoryMetrics |->
     << Metric("number_of_snapshots", defaultSnapshotRepositoryLabels),
        Metric("oldest_snapshot_timestamp", defaultSnapshotRepositoryLabels),
        Metric("latest_snapshot_timestamp_seconds", defaultSnapshotRepositoryLabels) >>]

\* Value of a snapshot-level descriptor
SnapshotValue(desc, snapshotStats) ==
  CASE desc = "snapshot_number_of_indices" ->
         Float64(Len(snapshotStats.Indices))
    [] desc = "snapshot_start_time_timestamp" ->
         Float64(DivTrunc(snapshotStats.StartTimeInMillis, 1000))
    [] desc = "snapshot_end_time_timestamp" ->
         Float64(DivTrunc(snapshotStats.EndTimeInMillis, 1000))
    [] desc = "snapshot_number_of_failures" ->
         Float64(Len(snapshotStats.Failures))
    [] desc = "snapshot_total_shards" ->
         Float64(snapshotStats.Shards.Total)
    [] desc = "snapshot_failed_shards" ->
         Float64(snapshotStats.Shards.Failed)
    [] desc = "snapshot_successful_shards" ->
         Float64(snapshotStats.Shards.Successful)

\* number_of_snapshots
NumberOfSnapshots(snapshots) ==
  Float64(Len(snapshots))

\* the oldest start time wherever it stands in the sequence
OldestSnapshotTimestampSorted(snapshots) ==
  IF Len(snapshots) = 0
    THEN 0
    ELSE LET i == CHOOSE i \in 1..Len(snapshots) :
                    \A j \in 1..Len(snapshots) :
                      snapshots[i].StartTimeInMillis <= snapshots[j].StartTimeInMillis
         IN  Float64(DivTrunc(snapshots[i].StartTimeInMillis, 1000))

\* oldest_snapshot_timestamp
OldestSnapshotTimestamp(snapshots) ==
  IF Len(snapshots) = 0
    THEN 0
    ELSE Float64(DivTrunc(snapshots[1].StartTimeInMillis, 1000))

RECURSIVE LatestScanMutant(_, _)
LatestScanMutant(snapshots, i) ==
  IF i < 1
    THEN 0
    ELSE IF snapshots[i].State = "SUCCESS"
           THEN Float64(DivTrunc(snapshots[i].StartTimeInMillis, 1000))
           ELSE LatestScanMutant(snapshots, i - 1)

\* the backward loop of latest_snapshot_timestamp_seconds, from index i down
RECURSIVE LatestScan(_, _)
LatestScan(snapshots, i) ==
  IF i < 1
    THEN 0
    ELSE IF snapshots[i].State = "SUCCESS" \/ snapshots[i].State = "PARTIAL"
           THEN Float64(DivTrunc(snapshots[i].StartTimeInMillis, 1000))
           ELSE LatestScan(snapshots, i - 1)

\* latest_snapshot_timestamp_seconds
LatestSnapshotTimestamp(snapshots) ==
  LatestScan(snapshots, Len(snapshots))

\* Value of a repository-level descriptor
RepositoryValue(desc, snapshots) ==
  CASE desc = "number_of_snapshots" -> NumberOfSnapshots(snapshots)
    [] desc = "oldest_snapshot_timestamp" -> OldestSnapshotTimestamp(snapshots)
    [] desc = "latest_snapshot_timestamp_seconds" -> LatestSnapshotTimestamp(snapshots)

\* prometheus.MustNewConstMetric: the sample sent on the channel
Sample(desc, value, labels) ==
  [Desc |-> desc, Value |-> value, Labels |-> labels]

\* ------------------------------------------------------------ the fetcher
NoData == <<>>
NilErr == [kind |-> "nil", code |-> 0, url |-> <<>>]
Err(kind, code, url) == [kind |-> kind, code |-> code, url |-> url]
LogLine(msg, err) == [msg |-> msg, err |-> err]

\* what the server (or the transport) answers to one GET:
\* conn = the client returned a response; status, readOk, body describe it;
\* closeOk = Body.Close returns nil
Response(conn, status, readOk, body, closeOk) ==
  [conn |-> conn, status |-> status, readOk |-> readOk, body |-> body,
   closeOk |-> closeOk]

Body(wellFormed, value) == [wellFormed |-> wellFormed, value |-> value]

\* json.Unmarshal(bts, data): on a type mismatch the error comes with the
\* destination partly filled
Unmarshal(body) ==
  IF body.wellFormed
    THEN [err |-> NilErr, data |-> body.value]
    ELSE [err |-> Err("decode", 0, <<>>), data |-> body.value]

\* the deferred function of getAndParseURL: one Body.Close, logged on error
DeferredClose(res) ==
  [closed |-> 1,
   log |-> IF res.closeOk
             THEN <<>>
             ELSE << LogLine("failed to close http.Client, err: ",
                             Err("close", 0, <<>>)) >>]

\* the fetcher returning the error of the deferred close
getAndParseURLCloseOverrides(u, res) ==
  IF ~res.conn
    THEN [err |-> Err("get", 0, u), data |-> NoData, closed |-> 0, log |-> <<>>]
    ELSE LET d == DeferredClose(res)
             r == IF res.status # HttpStatusOK
                    THEN [err |-> Err("status", res.status, <<>>), data |-> NoData]
                    ELSE IF ~res.readOk
                           THEN [err |-> Err("read", 0, <<>>), data |-> NoData]
                           ELSE Unmarshal(res.body)
         IN  [err |-> IF res.closeOk THEN r.err ELSE Err("close", 0, <<>>),
              data |-> r.data, closed |-> d.closed, log |-> d.log]

\* the fetcher accepting every 2xx status
getAndParseURLAny2xx(u, res) ==
  IF ~res.conn
    THEN [err |-> Err("get", 0, u), data |-> NoData, closed |-> 0, log |-> <<>>]
    ELSE LET d == DeferredClose(res)
             r == IF res.status < 200 \/ res.status >= 300
                    THEN [err |-> Err("status", res.status, <<>>), data |-> NoData]
                    ELSE IF ~res.readOk
                           THEN [err |-> Err("read", 0, <<>>), data |-> NoData]
                           ELSE Unmarshal(res.body)
         IN  [err |-> r.err, data |-> r.data, closed |-> d.closed, log |-> d.log]

\* the fetcher without the status check
getAndParseURLAnyStatus(u, res) ==
  IF ~res.conn
    THEN [err |-> Err("get", 0, u), data |-> NoData, closed |-> 0, log |-> <<>>]
    ELSE LET d == DeferredClose(res)
             r == IF ~res.readOk
                    THEN [err |-> Err("read", 0, <<>>), data |-> NoData]
                    ELSE Unmarshal(res.body)
         IN  [err |-> r.err, data |-> r.data, closed |-> d.closed, log |-> d.log]

\* the fetcher closing the body at the end of the success path only
getAndParseURLCloseAtEnd(u, res) ==
  IF ~res.conn
    THEN [err |-> Err("get", 0, u), data |-> NoData, closed |-> 0, log |-> <<>>]
    ELSE LET d == DeferredClose(res)
             r == IF res.status # HttpStatusOK
                    THEN [err |-> Err("status", res.status, <<>>), data |-> NoData]
                    ELSE IF ~res.readOk
                           THEN [err |-> Err("read", 0, <<>>), data |-> NoData]
                           ELSE Unmarshal(res.body)
         IN  IF r.err.kind # "nil"
               THEN [err |-> r.err, data |-> r.data, closed |-> 0, log |-> <<>>]
               ELSE [err |-> r.err, data |-> r.data, closed |-> d.closed,
                     log |-> d.log]

\* getAndParseURL(u, data) when the GET is answered by res: the returned
\* error, the decoded data, the number of Body.Close calls and the log lines
getAndParseURL(u, res) ==
  IF ~res.conn
    THEN [err |-> Err("get", 0, u), data |-> NoData, closed |-> 0, log |-> <<>>]
    ELSE LET d == DeferredClose(res)
             r == IF res.status # HttpStatusOK
                    THEN [err |-> Err("status", res.status, <<>>), data |-> NoData]
                    ELSE IF ~res.readOk
                           THEN [err |-> Err("read", 0, <<>>), data |-> NoData]
                           ELSE Unmarshal(res.body)
         IN  [err |-> r.err, data |-> r.data, closed |-> d.closed, log |-> d.log]

\* path.Clean on a rooted path given as its elements: empty and "." elements
\* are dropped, ".." removes the element before it (nothing at the root)
RECURSIVE Clean(_, _)
Clean(done, rest) ==
  IF rest = <<>>
    THEN done
    ELSE IF Head(rest) \in {"", "."}
           THEN Clean(done, Tail(rest))
           ELSE IF Head(rest) = ".."
                  THEN Clean(IF done = <<>> THEN <<>>
                             ELSE SubSeq(done, 1, Len(done) - 1), Tail(rest))
                  ELSE Clean(Append(done, Head(rest)), Tail(rest))

\* path.Join: the elements are joined with "/" and the result is cleaned
PathJoin(a, b) == Clean(<<>>, a \o b)

\* the elements of a name between its "/" (an empty one where two separators
\* meet or the name starts or ends with one)
RECURSIVE Elements(_, _, _)
Elements(done, elem, rest) ==
  IF rest = <<>>
    THEN Append(done, elem)
    ELSE IF Head(rest) = "/"
           THEN Elements(Append(done, elem), "", Tail(rest))
           ELSE Elements(done, Head(rest), Tail(rest))

NameSegments(name) == Elements(<<>>, "", name)

\* {base}/_snapshot
CatalogURL(base) == PathJoin(base, <<"_snapshot">>)

\* path.Join(base, "/_snapshot", repository, "/_all")
DetailURL(base, repository) ==
  PathJoin(base, <<"_snapshot">> \o NameSegments(repository) \o <<"_all">>)

\* m[k] = v on a Go map
Put(m, k, v) == [x \in (DOMAIN m) \cup {k} |-> IF x = k THEN v ELSE m[x]]

\* a map kept from the previous invocation
MakeMssrStale(previous) == previous

\* mssr := make(map[string]SnapshotStatsResponse)
MakeMssr(previous) == <<>>

\* a failed fetch discarding what was stored before it
StoreStatsDropAll(m, repository, r) ==
  IF r.err.kind # "nil" THEN <<>> ELSE Put(m, repository, r.data)

\* body of the loop over srr: a failed fetch is skipped
StoreStats(m, repository, r) ==
  IF r.err.kind # "nil" THEN m ELSE Put(m, repository, r.data)

\* body of the loop of Collect for one repository: the samples sent
RECURSIVE ApplyRepositoryMetrics(_, _, _)
ApplyRepositoryMetrics(metrics, repositoryName, snapshotStats) ==
  IF metrics = <<>>
    THEN <<>>
    ELSE << Sample(Head(metrics).Desc,
                   RepositoryValue(Head(metrics).Desc, snapshotStats.Snapshots),
                   defaultSnapshotRepositoryLabelValues(repositoryName)) >>
         \o ApplyRepositoryMetrics(Tail(metrics), repositoryName, snapshotStats)

RECURSIVE ApplySnapshotMetrics(_, _, _)
ApplySnapshotMetrics(metrics, repositoryName, snapshot) ==
  IF metrics = <<>>
    THEN <<>>
    ELSE << Sample(Head(metrics).Desc,
                   SnapshotValue(Head(metrics).Desc, snapshot),
                   defaultSnapshotLabelValues(repositoryName, snapshot)) >>
         \o ApplySnapshotMetrics(Tail(metrics), repositoryName, snapshot)

LastSnapshotFirst(snapshots) == snapshots[1]

\* snapshotStats.Snapshots[len(snapshotStats.Snapshots)-1]
LastSnapshot(snapshots) == snapshots[Len(snapshots)]

RECURSIVE ApplyToEverySnapshot(_, _, _)
ApplyToEverySnapshot(sm, repositoryName, snapshots) ==
  IF snapshots = <<>>
    THEN <<>>
    ELSE ApplySnapshotMetrics(sm, repositoryName, Head(snapshots))
         \o ApplyToEverySnapshot(sm, repositoryName, Tail(snapshots))

\* the loop body sending the snapshot-level samples of every snapshot
CollectRepositoryEverySnapshot(sm, rm, repositoryName, snapshotStats) ==
  ApplyRepositoryMetrics(rm, repositoryName, snapshotStats)
  \o ApplyToEverySnapshot(sm, repositoryName, snapshotStats.Snapshots)

CollectRepository(sm, rm, repositoryName, snapshotStats) ==
  ApplyRepositoryMetrics(rm, repositoryName, snapshotStats)
  \o IF Len(snapshotStats.Snapshots) = 0
       THEN <<>>
       ELSE ApplySnapshotMetrics(sm, repositoryName,
                                 LastSnapshot(snapshotStats.Snapshots))

\* prometheus.MustNewConstMetric panics when the number of label values is
\* not the number of label names of the descriptor
LabelsMismatch(metric, labels) == Len(labels) # Len(metric.LabelNames)

\* the MustNewConstMetric call building sample panics
SamplePanics(sm, rm, sample) ==
  LET ms == sm \o rm
      i == CHOOSE i \in 1..Len(ms) : ms[i].Desc = sample.Desc
  IN  LabelsMismatch(ms[i], sample.Labels)

\* the descriptors Describe sends
RECURSIVE Descs(_)
Descs(metrics) ==
  IF metrics = <<>> THEN <<>> ELSE <<Head(metrics).Desc>> \o Descs(Tail(metrics))

DescribeOutputSwapped(sm, rm) == Descs(rm) \o Descs(sm)

DescribeOutput(sm, rm) == Descs(sm) \o Descs(rm)

\* ----------------------------------------------------- bounded responses
BadBody == Body(FALSE, NoData)
Statuses == {500}

CatalogValues == { [r \in c |-> [type |-> "fs"]] : c \in SUBSET Repos }
StatsValues == { [Snapshots |-> q] : q \in SeqsUpTo(SnapRecords, MaxLen) }

\* values: what a 200 body may decode to; closeFails: the values among them
\* whose body is also drawn with a failing Close; errValue: what the JSON body
\* of a non-200 answer decodes to
Responses(values, closeFails, errValue) ==
  {Response(FALSE, 0, FALSE, BadBody, TRUE)}
  \cup { Response(TRUE, st, TRUE, b, co) :
           st \in Statuses, b \in {BadBody, Body(TRUE, errValue)},
           co \in BOOLEAN }
  \cup { Response(TRUE, HttpStatusOK, FALSE, BadBody, co) : co \in BOOLEAN }
  \cup { Response(TRUE, HttpStatusOK, TRUE, b, co) :
           b \in {BadBody, Body(FALSE, errValue)}, co \in BOOLEAN }
  \cup { Response(TRUE, HttpStatusOK, TRUE, Body(TRUE, v), TRUE) : v \in values }
  \cup { Response(TRUE, HttpStatusOK, TRUE, Body(TRUE, v), FALSE) :
           v \in closeFails }

\* detail bodies of at most one snapshot, the ones drawn with a failing Close
ShortStatsValues == { [Snapshots |-> q] : q \in SeqsUpTo(SnapRecords, 1) }

CatalogResponses ==
  Responses(CatalogValues, CatalogValues, [r \in Repos |-> [type |-> "fs"]])
DetailResponses ==
  Responses(StatsValues, ShortStatsValues, [Snapshots |-> <<SnapSuccess>>])

\* ------------------------------------------------------------------ state
VARIABLES
  snapshotMetrics,    \* Snapshots.snapshotMetrics
  repositoryMetrics,  \* Snapshots.repositoryMetrics
  pc,                 \* per caller: where its Collect invocation stands
  srr,                \* per caller: the decoded catalog (name -> metadata)
  todo,               \* per caller: catalog names the range loop has not visited
  mssr,               \* per caller: the map repository -> stats being built
  toEmit,             \* per caller: keys of the map Collect has not visited
  ch,                 \* per caller: samples sent on ch by the invocation
  requests,           \* per caller: the GETs of the invocation, with answers
  bodies,             \* per caller: Body.Close calls per response obtained
  logs,               \* per caller: lines logged by the invocation
  cycle,              \* per caller: number of Collect invocations started
  everOk,             \* per caller: repositories emitted by earlier invocations
  cur,                \* per caller: the key the loop of Collect is at, if any
  sent,               \* per caller: samples of that key sent so far
  descCh,             \* descriptors sent by the last Describe
  nDescribe,          \* number of Describe calls
  descI,              \* index of the next descriptor Describe sends, 0 if none
  stats,              \* a snapshot sequence given to the Value functions
  out,                \* the samples the Value functions produced for stats
  answer,             \* an answer given to the fetcher on its own
  result              \* what the fetcher returned for answer, if called

cvars == <<pc, srr, todo, mssr, toEmit, ch, requests, bodies, logs, cycle, everOk,
           cur, sent>>
fvars == <<answer, result>>
vars == <<snapshotMetrics, repositoryMetrics, pc, srr, todo, mssr, toEmit, ch,
          requests, bodies, logs, cycle, everOk, cur, sent, descCh, nDescribe,
          descI, stats, out, answer, result>>

SampleRepos(samples) == { samples[i].Labels[1] : i \in 1..Len(samples) }

Init ==
  /\ snapshotMetrics = NewSnapshots.snapshotMetrics
  /\ repositoryMetrics = NewSnapshots.repositoryMetrics
  /\ pc = [p \in Procs |-> "idle"]
  /\ srr = [p \in Procs |-> <<>>]
  /\ todo = [p \in Procs |-> {}]
  /\ mssr = [p \in Procs |-> <<>>]
  /\ toEmit = [p \in Procs |-> {}]
  /\ ch = [p \in Procs |-> <<>>]
  /\ requests = [p \in Procs |-> <<>>]
  /\ bodies = [p \in Procs |-> <<>>]
  /\ logs = [p \in Procs |-> <<>>]
  /\ cycle = [p \in Procs |-> 0]
  /\ everOk = [p \in Procs |-> {}]
  /\ descCh = <<>>
  /\ nDescribe = 0
  /\ stats = <<>>
  /\ out = <<>>
  /\ answer = Response(FALSE, 0, FALSE, BadBody, TRUE)
  /\ result = <<>>
  /\ cur = [p \in Procs |-> <<>>]
  /\ sent = [p \in Procs |-> 0]
  /\ descI = 0

\* ---------------------------------------------------------------- actions
\* Describe is called: its loops start at the first descriptor
DescribeBegin ==
  /\ descI = 0
  /\ nDescribe < MaxDescribe
  /\ nDescribe' = nDescribe + 1
  /\ descCh' = <<>>
  /\ descI' = 1
  /\ UNCHANGED <<snapshotMetrics, repositoryMetrics, cvars, stats, out, fvars>>

\* one send of Describe; it returns after the last one
DescribeSend ==
  /\ descI >= 1
  /\ LET all == DescribeOutput(snapshotMetrics, repositoryMetrics)
     IN  /\ descCh' = Append(descCh, all[descI])
         /\ descI' = IF descI = Len(all) THEN 0 ELSE descI + 1
  /\ UNCHANGED <<snapshotMetrics, repositoryMetrics, cvars, nDescribe, stats, out,
                 fvars>>

\* Collect is called: fetchAndDecodeSnapshotsStats starts with a fresh map
CollectBegin(p) ==
  /\ pc[p] \in {"idle", "done", "aborted"}
  /\ cycle[p] < MaxCycles
  /\ cycle' = [cycle EXCEPT ![p] = @ + 1]
  /\ everOk' = [everOk EXCEPT ![p] = @ \cup SampleRepos(ch[p])]
  /\ pc' = [pc EXCEPT ![p] = "listing"]
  /\ mssr' = [mssr EXCEPT ![p] = MakeMssr(@)]
  /\ srr' = [srr EXCEPT ![p] = <<>>]
  /\ todo' = [todo EXCEPT ![p] = {}]
  /\ toEmit' = [toEmit EXCEPT ![p] = {}]
  /\ ch' = [ch EXCEPT ![p] = <<>>]
  /\ requests' = [requests EXCEPT ![p] = <<>>]
  /\ bodies' = [bodies EXCEPT ![p] = <<>>]
  /\ logs' = [logs EXCEPT ![p] = <<>>]
  /\ UNCHANGED <<snapshotMetrics, repositoryMetrics, cur, sent, descCh, nDescribe,
                 descI, stats, out, fvars>>

\* bookkeeping of one GET answered by res with result r
Fetched(p, u, res, r, more) ==
  /\ requests' = [requests EXCEPT ![p] = Append(@, [url |-> u, res |-> res])]
  /\ bodies' = [bodies EXCEPT ![p] = IF res.conn THEN Append(@, r.closed) ELSE @]
  /\ logs' = [logs EXCEPT ![p] = @ \o r.log \o more]

\* the catalog GET; on error Collect logs and returns
FetchCatalog(p, res) ==
  /\ pc[p] = "listing"
  /\ LET u == CatalogURL(BasePath)
         r == getAndParseURL(u, res)
     IN  IF r.err.kind # "nil"
           THEN /\ Fetched(p, u, res, r,
                     << LogLine("failed to fetch and decode snapshot stats, err: ",
                                r.err) >>)
                /\ pc' = [pc EXCEPT ![p] = "aborted"]
                /\ UNCHANGED <<srr, todo>>
           ELSE /\ Fetched(p, u, res, r, <<>>)
                /\ pc' = [pc EXCEPT ![p] = "fetching"]
                /\ srr' = [srr EXCEPT ![p] = r.data]
                /\ todo' = [todo EXCEPT ![p] = DOMAIN r.data]
  /\ UNCHANGED <<snapshotMetrics, repositoryMetrics, mssr, toEmit, ch, cycle,
                 everOk, cur, sent, descCh, nDescribe, descI, stats, out, fvars>>

\* the loop iteration returning the error of a failed detail fetch
FetchDetailAbortOnError(p, repository, res) ==
  /\ pc[p] = "fetching"
  /\ repository \in todo[p]
  /\ LET u == DetailURL(BasePath, repository)
         r == getAndParseURL(u, res)
     IN  /\ Fetched(p, u, res, r, <<>>)
         /\ mssr' = [mssr EXCEPT ![p] = StoreStats(@, repository, r)]
         /\ pc' = [pc EXCEPT ![p] = IF r.err.kind # "nil" THEN "aborted" ELSE @]
  /\ todo' = [todo EXCEPT ![p] = @ \ {repository}]
  /\ UNCHANGED <<snapshotMetrics, repositoryMetrics, srr, toEmit, ch, cycle,
                 everOk, cur, sent, descCh, nDescribe, descI, stats, out, fvars>>

\* the loop iteration storing into a map shared by every caller
FetchDetailSharedMap(p, repository, res) ==
  /\ pc[p] = "fetching"
  /\ repository \in todo[p]
  /\ LET u == DetailURL(BasePath, repository)
         r == getAndParseURL(u, res)
     IN  /\ Fetched(p, u, res, r, <<>>)
         /\ mssr' = [q \in Procs |-> StoreStats(mssr[q], repository, r)]
  /\ todo' = [todo EXCEPT ![p] = @ \ {repository}]
  /\ UNCHANGED <<snapshotMetrics, repositoryMetrics, pc, srr, toEmit, ch, cycle,
                 everOk, cur, sent, descCh, nDescribe, descI, stats, out, fvars>>

\* one iteration of the loop over the catalog: the detail GET of repository
FetchDetail(p, repository, res) ==
  /\ pc[p] = "fetching"
  /\ repository \in todo[p]
  /\ LET u == DetailURL(BasePath, repository)
         r == getAndParseURL(u, res)
     IN  /\ Fetched(p, u, res, r, <<>>)
         /\ mssr' = [mssr EXCEPT ![p] = StoreStats(@, repository, r)]
  /\ todo' = [todo EXCEPT ![p] = @ \ {repository}]
  /\ UNCHANGED <<snapshotMetrics, repositoryMetrics, pc, srr, toEmit, ch, cycle,
                 everOk, cur, sent, descCh, nDescribe, descI, stats, out, fvars>>

\* fetchAndDecodeSnapshotsStats returns the map; Collect starts its loop
FetchReturn(p) ==
  /\ pc[p] = "fetching"
  /\ todo[p] = {}
  /\ pc' = [pc EXCEPT ![p] = "emitting"]
  /\ toEmit' = [toEmit EXCEPT ![p] = DOMAIN mssr[p]]
  /\ UNCHANGED <<snapshotMetrics, repositoryMetrics, srr, todo, mssr, ch,
                 requests, bodies, logs, cycle, everOk, cur, sent, descCh, nDescribe, descI,
                 stats, out, fvars>>

\* the loop of Collect takes the next key of the map
EmitRepository(p, repositoryName) ==
  /\ pc[p] = "emitting"
  /\ cur[p] = <<>>
  /\ repositoryName \in toEmit[p]
  /\ cur' = [cur EXCEPT ![p] = <<repositoryName>>]
  /\ sent' = [sent EXCEPT ![p] = 0]
  /\ toEmit' = [toEmit EXCEPT ![p] = @ \ {repositoryName}]
  /\ UNCHANGED <<snapshotMetrics, repositoryMetrics, pc, srr, todo, mssr, ch,
                 requests, bodies, logs, cycle, everOk, descCh, nDescribe, descI,
                 stats, out, fvars>>

\* one MustNewConstMetric and its send on ch; a panic ends the goroutine
SendSample(p) ==
  /\ pc[p] = "emitting"
  /\ cur[p] # <<>>
  /\ LET repositoryName == cur[p][1]
         all == CollectRepository(snapshotMetrics, repositoryMetrics,
                                  repositoryName, mssr[p][repositoryName])
         k == sent[p] + 1
     IN  IF SamplePanics(snapshotMetrics, repositoryMetrics, all[k])
           THEN /\ pc' = [pc EXCEPT ![p] = "panicked"]
                /\ UNCHANGED <<ch, cur, sent>>
           ELSE /\ ch' = [ch EXCEPT ![p] = Append(@, all[k])]
                /\ cur' = [cur EXCEPT ![p] = IF k = Len(all) THEN <<>> ELSE @]
                /\ sent' = [sent EXCEPT ![p] = IF k = Len(all) THEN 0 ELSE k]
                /\ UNCHANGED pc
  /\ UNCHANGED <<snapshotMetrics, repositoryMetrics, srr, todo, mssr, toEmit,
                 requests, bodies, logs, cycle, everOk, descCh, nDescribe, descI,
                 stats, out, fvars>>

\* Collect returns after its loop
CollectReturn(p) ==
  /\ pc[p] = "emitting"
  /\ toEmit[p] = {}
  /\ cur[p] = <<>>
  /\ pc' = [pc EXCEPT ![p] = "done"]
  /\ UNCHANGED <<snapshotMetrics, repositoryMetrics, srr, todo, mssr, toEmit, ch,
                 requests, bodies, logs, cycle, everOk, cur, sent, descCh, nDescribe, descI,
                 stats, out, fvars>>

\* the scrape scheduler calls Collect from one caller at a time
Callers == {1}

Next ==
  \/ \E p \in Callers : CollectBegin(p)
  \/ \E p \in Callers, res \in CatalogResponses : FetchCatalog(p, res)
  \/ \E p \in Callers, repository \in Repos, res \in DetailResponses :
       FetchDetail(p, repository, res)
  \/ \E p \in Callers : FetchReturn(p)
  \/ \E p \in Callers, repositoryName \in Repos :
       EmitRepository(p, repositoryName)
  \/ \E p \in Callers : SendSample(p)
  \/ \E p \in Callers : CollectReturn(p)

Spec == Init /\ [][Next]_vars

\* ------------------------------------------- the Value functions on their own
InitMetrics ==
  /\ Init!1 /\ Init!2 /\ Init!3 /\ Init!4 /\ Init!5 /\ Init!6 /\ Init!7
  /\ Init!8 /\ Init!9 /\ Init!10 /\ Init!11 /\ Init!12 /\ Init!13 /\ Init!14
  /\ Init!15
  /\ stats \in SeqsUpTo(StatRecords, MaxStatsLen)
  /\ out = <<>>
  /\ Init!18 /\ Init!19 /\ Init!20 /\ Init!21 /\ Init!22

\* apply every repository-level descriptor to stats
ApplyRepository ==
  /\ out' = ApplyRepositoryMetrics(repositoryMetrics, Name("R1"), [Snapshots |-> stats])
  /\ UNCHANGED <<snapshotMetrics, repositoryMetrics, cvars, descCh, nDescribe, descI, stats, fvars>>

\* apply every snapshot-level descriptor to the element i of stats
ApplySnapshot(i) ==
  /\ i \in 1..Len(stats)
  /\ out' = ApplySnapshotMetrics(snapshotMetrics, Name("R1"), stats[i])
  /\ UNCHANGED <<snapshotMetrics, repositoryMetrics, cvars, descCh, nDescribe, descI, stats, fvars>>

NextMetrics ==
  \/ ApplyRepository
  \/ \E i \in 1..MaxStatsLen + 1 : ApplySnapshot(i)

SpecMetrics == InitMetrics /\ [][NextMetrics]_vars

\* ------------------------------------------------- the fetcher on its own
FetchStatuses == {200, 204, 404, 500}

FetchAnswers ==
  { Response(c, st, ro, b, co) :
      c \in BOOLEAN, st \in FetchStatuses, ro \in BOOLEAN,
      b \in {BadBody, Body(FALSE, [r \in {Name("R1")} |-> [type |-> "fs"]])}
              \cup { Body(TRUE, v) : v \in CatalogValues },
      co \in BOOLEAN }

InitFetch ==
  /\ Init!1 /\ Init!2 /\ Init!3 /\ Init!4 /\ Init!5 /\ Init!6 /\ Init!7
  /\ Init!8 /\ Init!9 /\ Init!10 /\ Init!11 /\ Init!12 /\ Init!13 /\ Init!14
  /\ Init!15 /\ Init!16 /\ Init!17
  /\ answer \in FetchAnswers
  /\ result = <<>>
  /\ Init!20 /\ Init!21 /\ Init!22

\* one call of getAndParseURL answered by answer
ApplyFetch ==
  /\ result = <<>>
  /\ result' = <<getAndParseURL(CatalogURL(BasePath), answer)>>
  /\ UNCHANGED <<snapshotMetrics, repositoryMetrics, cvars, descCh, nDescribe, descI,
                 stats, out, answer>>

NextFetch == ApplyFetch

SpecFetch == InitFetch /\ [][NextFetch]_vars

\* ------------------------------------ two callers running Collect at once
MaxConcCycles == 1   \* Collect invocations per caller when two callers run

ConcCatalogResponses ==
  { Response(FALSE, 0, FALSE, BadBody, TRUE) }
  \cup { Response(TRUE, HttpStatusOK, TRUE, Body(TRUE, v), TRUE) :
           v \in { [r \in c |-> [type |-> "fs"]] : c \in {{Name("R1")}, {Name("R1"), Name("R2")}} } }

\* answers to the detail GET of repository
ConcDetailResponses(repository) ==
  { Response(TRUE, 500, TRUE, BadBody, TRUE) }
  \cup { Response(TRUE, HttpStatusOK, TRUE, Body(TRUE, [Snapshots |-> q]), TRUE) :
           q \in IF repository = Name("R1")
                   THEN {<<>>, <<SnapSuccess, SnapFailed>>}
                   ELSE {<<>>} }

NextConc ==
  \/ \E p \in Procs : cycle[p] < MaxConcCycles /\ CollectBegin(p)
  \/ \E p \in Procs, res \in ConcCatalogResponses : FetchCatalog(p, res)
  \/ \E p \in Procs, repository \in Repos :
       \E res \in ConcDetailResponses(repository) : FetchDetail(p, repository, res)
  \/ \E p \in Procs : FetchReturn(p)
  \/ \E p \in Procs, repositoryName \in Repos :
       EmitRepository(p, repositoryName)
  \/ \E p \in Procs : SendSample(p)
  \/ \E p \in Procs : CollectReturn(p)

SpecConc == Init /\ [][NextConc]_vars

\* ------------------------- one caller, every fetch returns, the sink accepts
LiveCatalogResponses ==
  { Response(FALSE, 0, FALSE, BadBody, TRUE),
    Response(TRUE, 500, TRUE, BadBody, TRUE),
    Response(TRUE, HttpStatusOK, TRUE, BadBody, TRUE) }
  \cup { Response(TRUE, HttpStatusOK, TRUE, Body(TRUE, v), TRUE) : v \in CatalogValues }

LiveDetailResponses ==
  { Response(FALSE, 0, FALSE, BadBody, TRUE),
    Response(TRUE, 500, TRUE, BadBody, TRUE),
    Response(TRUE, HttpStatusOK, TRUE, BadBody, TRUE) }
  \cup { Response(TRUE, HttpStatusOK, TRUE, Body(TRUE, [Snapshots |-> q]), TRUE) :
           q \in {<<>>, <<SnapSuccess, SnapFailed>>} }

LiveFetchCatalog(p) == \E res \in LiveCatalogResponses : FetchCatalog(p, res)
LiveFetchDetail(p) ==
  \E repository \in Repos, res \in LiveDetailResponses :
    FetchDetail(p, repository, res)
LiveEmit(p) == \E repositoryName \in Repos : EmitRepository(p, repositoryName)

NextLive ==
  \/ \E p \in Callers : CollectBegin(p)
  \/ \E p \in Callers : LiveFetchCatalog(p)
  \/ \E p \in Callers : LiveFetchDetail(p)
  \/ \E p \in Callers : FetchReturn(p)
  \/ \E p \in Callers : LiveEmit(p)
  \/ \E p \in Callers : SendSample(p)
  \/ \E p \in Callers : CollectReturn(p)

\* a started invocation keeps running: each GET returns, each single send on
\* the channel is taken
Fairness ==
  \A p \in Callers :
    /\ WF_vars(LiveFetchCatalog(p))
    /\ WF_vars(LiveFetchDetail(p))
    /\ WF_vars(FetchReturn(p))
    /\ WF_vars(LiveEmit(p))
    /\ WF_vars(SendSample(p))
    /\ WF_vars(CollectReturn(p))

SpecLive == Init /\ [][NextLive]_vars /\ Fairness

\* --------------------------------- Describe running while Collect runs
NextDescribe ==
  \/ DescribeBegin
  \/ DescribeSend
  \/ NextLive

SpecDescribe == Init /\ [][NextDescribe]_vars

\* --------------------- catalogs with names that path.Join does not keep
DotDot == Name("..")
R1Dot == <<"R1", "/", ".">>
R1Slash == <<"R1", "/">>
AB == <<"a", "/", "b">>
OddRepos == {Name("R1"), DotDot, R1Dot, R1Slash, AB}

OddCatalogResponses ==
  { Response(TRUE, HttpStatusOK, TRUE, Body(TRUE, [r \in c |-> [type |-> "fs"]]), TRUE) :
      c \in {{Name("R1"), DotDot}, {Name("R1"), R1Dot}, {DotDot}, {R1Slash, AB}} }

OddDetailResponses ==
  { Response(TRUE, 500, TRUE, BadBody, TRUE),
    Response(TRUE, HttpStatusOK, TRUE, Body(TRUE, [Snapshots |-> <<>>]), TRUE),
    Response(TRUE, HttpStatusOK, TRUE, Body(TRUE, [Snapshots |-> <<SnapSuccess>>]),
             TRUE) }

NextNames ==
  \/ \E p \in Callers : CollectBegin(p)
  \/ \E p \in Callers, res \in OddCatalogResponses : FetchCatalog(p, res)
  \/ \E p \in Callers, repository \in OddRepos, res \in OddDetailResponses :
       FetchDetail(p, repository, res)
  \/ \E p \in Callers : FetchReturn(p)
  \/ \E p \in Callers, repositoryName \in OddRepos :
       EmitRepository(p, repositoryName)
  \/ \E p \in Callers : SendSample(p)
  \/ \E p \in Callers : CollectReturn(p)

SpecNames == Init /\ [][NextNames]_vars

\* ================================================================ claims
\* a fetch fails: transport error, status other than 200, body not read
\* or body not decodable
FetchFails(res) ==
  \/ ~res.conn
  \/ res.status # 200
  \/ ~res.readOk
  \/ ~res.body.wellFormed

CatalogAnswered(p) == Len(requests[p]) >= 1
CatalogAnswer(p) == requests[p][1].res
CatalogNames(p) == DOMAIN CatalogAnswer(p).body.value
DetailIndexes(p) == 2..Len(requests[p])
\* {base}/_snapshot/{name}/_all as written
TemplateURL(name) == BasePath \o <<"_snapshot">> \o NameSegments(name) \o <<"_all">>
\* the detail requests of the invocation made for repository name
RequestsFor(p, name) ==
  { i \in DetailIndexes(p) : requests[p][i].url = TemplateURL(name) }
DetailOk(p, name) ==
  \E i \in RequestsFor(p, name) : ~FetchFails(requests[p][i].res)
DetailFailed(p, name) ==
  \E i \in RequestsFor(p, name) : FetchFails(requests[p][i].res)
\* what the successful detail fetch of name decoded
DetailValue(p, name) ==
  LET i == CHOOSE i \in RequestsFor(p, name) : ~FetchFails(requests[p][i].res)
  IN  requests[p][i].res.body.value

RECURSIVE SelectRepo(_, _)
SelectRepo(samples, name) ==
  IF samples = <<>>
    THEN <<>>
    ELSE IF Head(samples).Labels[1] = name
           THEN <<Head(samples)>> \o SelectRepo(Tail(samples), name)
           ELSE SelectRepo(Tail(samples), name)

\* millis/1000 with truncation toward zero
Seconds(ms) ==
  CHOOSE q \in -10..10 :
    IF ms >= 0 THEN ms - 1000 * q \in 0..999 ELSE 1000 * q - ms \in 0..999

\* C1: when the catalog fetch fails, the invocation sends no sample and
\* makes no detail fetch
C1_CatalogFailureEmitsNothing ==
  \A p \in Procs :
    (CatalogAnswered(p) /\ FetchFails(CatalogAnswer(p)))
      => /\ ch[p] = <<>>
         /\ Len(requests[p]) = 1
         /\ pc[p] = "aborted"

C1_Witness ==
  /\ pc[1] = "aborted"
  /\ CatalogAnswer(1).conn
  /\ CatalogAnswer(1).status = 500
  /\ CatalogAnswer(1).body.wellFormed

\* C2: the repositories with samples are exactly those whose detail fetch
\* succeeded; a failed repository has no sample and does not change the
\* samples of the others
C2_PartialFailureIsolation ==
  \A p \in Procs :
    /\ pc[p] = "done"
         => SampleRepos(ch[p]) = { name \in Repos : DetailOk(p, name) }
    /\ \A name \in Repos :
         /\ DetailFailed(p, name) => name \notin SampleRepos(ch[p])
         /\ name \in SampleRepos(ch[p])
              => /\ DetailOk(p, name)
                 /\ SelectRepo(ch[p], name)[1].Value
                      = Len(DetailValue(p, name).Snapshots)

C2_Witness ==
  /\ pc[1] = "done"
  /\ DetailFailed(1, Name("R1"))
  /\ DetailOk(1, Name("R2"))
  /\ requests[1][2].url = TemplateURL(Name("R2"))
  /\ SampleRepos(ch[1]) = {Name("R2")}

\* a log line names a repository when its text holds the name: the only
\* text built from the request is the path of a transport error
LineNames(line, name) ==
  LET u == line.err.url
      n == NameSegments(name)
  IN  \E i \in 1..Len(u) :
        i + Len(n) - 1 <= Len(u) /\ SubSeq(u, i, i + Len(n) - 1) = n

\* C3: a failed detail fetch is reported by a log line naming its repository
C3_DetailFailureLogged ==
  \A p \in Procs : \A name \in Repos :
    DetailFailed(p, name)
      => \E i \in 1..Len(logs[p]) : LineNames(logs[p][i], name)

\* C4: with N names in the catalog, exactly N detail fetches are made: one
\* per name, against {base}/_snapshot/{name}/_all, none repeated, none for
\* another name
C4_OneDetailFetchPerName ==
  \A p \in Procs :
    CatalogAnswered(p) /\ ~FetchFails(CatalogAnswer(p))
      => /\ \A i \in DetailIndexes(p) :
              \E name \in CatalogNames(p) : requests[p][i].url = TemplateURL(name)
         /\ \A i, j \in DetailIndexes(p) :
              requests[p][i].url = requests[p][j].url => i = j
         /\ pc[p] \in {"emitting", "done"}
              => /\ Len(requests[p]) - 1 = Cardinality(CatalogNames(p))
                 /\ \A name \in CatalogNames(p) :
                      Cardinality(RequestsFor(p, name)) = 1

\* the samples the claim expects for a repository whose detail fetch
\* decoded the sequence snapshots
ExpectedRepositoryLevel(name, snapshots) ==
  LET good == { i \in 1..Len(snapshots) :
                  snapshots[i].State \in {"SUCCESS", "PARTIAL"} }
      latest == CHOOSE i \in good : \A j \in good : j <= i
  IN  << [Desc |-> "number_of_snapshots", Value |-> Len(snapshots),
          Labels |-> <<name>>],
         [Desc |-> "oldest_snapshot_timestamp",
          Value |-> IF snapshots = <<>> THEN 0
                    ELSE Seconds(snapshots[1].StartTimeInMillis),
          Labels |-> <<name>>],
         [Desc |-> "latest_snapshot_timestamp_seconds",
          Value |-> IF good = {} THEN 0
                    ELSE Seconds(snapshots[latest].StartTimeInMillis),
          Labels |-> <<name>>] >>

ExpectedSnapshotLevel(name, last) ==
  LET labels == <<name, last.State, last.Version>>
  IN  << [Desc |-> "snapshot_number_of_indices", Value |-> Len(last.Indices),
          Labels |-> labels],
         [Desc |-> "snapshot_start_time_timestamp",
          Value |-> Seconds(last.StartTimeInMillis), Labels |-> labels],
         [Desc |-> "snapshot_end_time_timestamp",
          Value |-> Seconds(last.EndTimeInMillis), Labels |-> labels],
         [Desc |-> "snapshot_number_of_failures", Value |-> Len(last.Failures),
          Labels |-> labels],
         [Desc |-> "snapshot_total_shards", Value |-> last.Shards.Total,
          Labels |-> labels],
         [Desc |-> "snapshot_failed_shards", Value |-> last.Shards.Failed,
          Labels |-> labels],
         [Desc |-> "snapshot_successful_shards",
          Value |-> last.Shards.Successful, Labels |-> labels] >>

\* C5: a repository whose detail fetch succeeded gets the 3 repository-level
\* samples, and, when its sequence is not empty, the 7 snapshot-level
\* samples of the last element of the sequence, whatever its state
C5_SamplesOfARepository ==
  \A p \in Procs :
    pc[p] = "done"
      => \A name \in Repos :
           DetailOk(p, name)
             => LET snapshots == DetailValue(p, name).Snapshots
                    mine == SelectRepo(ch[p], name)
                IN  /\ SubSeq(mine, 1, 3) = ExpectedRepositoryLevel(name, snapshots)
                    /\ snapshots = <<>> => Len(mine) = 3
                    /\ snapshots # <<>>
                         => /\ Len(mine) = 10
                            /\ SubSeq(mine, 4, 10)
                                 = ExpectedSnapshotLevel(name,
                                     snapshots[Len(snapshots)])

C5_Witness ==
  /\ pc[1] = "done"
  /\ DetailOk(1, Name("R1"))
  /\ DetailValue(1, Name("R1")).Snapshots = <<SnapSuccess, SnapFailed>>
  /\ DetailOk(1, Name("R2"))
  /\ DetailValue(1, Name("R2")).Snapshots = <<>>
  /\ Len(ch[1]) = 13

\* the Value functions were applied to stats: out holds the 3
\* repository-level samples
RepositoryApplied == Len(out) = 3
Qualifying == { i \in 1..Len(stats) : stats[i].State \in {"SUCCESS", "PARTIAL"} }
HighestQualifying == CHOOSE i \in Qualifying : \A j \in Qualifying : j <= i

\* C6: the latest-success-or-partial value is the start time in seconds of
\* the highest-index record in state SUCCESS or PARTIAL, and 0 when there is
\* none
C6_LatestSuccessOrPartial ==
  RepositoryApplied
    => /\ out[3].Desc = "latest_snapshot_timestamp_seconds"
       /\ out[3].Value = IF Qualifying = {}
                           THEN 0
                           ELSE Seconds(stats[HighestQualifying].StartTimeInMillis)

\* FAILED, PARTIAL at 1999 ms, FAILED: the value is that of the middle
\* record, not of the last element
C6_Witness ==
  /\ RepositoryApplied
  /\ Len(stats) = 3
  /\ stats[1].State = "FAILED"
  /\ stats[2].State = "PARTIAL" /\ stats[2].StartTimeInMillis = 1999
  /\ stats[3].State = "FAILED" /\ stats[3].StartTimeInMillis = 100
  /\ out[3].Value = 1

\* C7: the count is the length of the sequence and the oldest value is the
\* start time in seconds of the first element (0 for an empty sequence),
\* whatever the states and the order of the start times; the sequence is
\* left as it was
C7_CountAndOldest ==
  /\ [](RepositoryApplied
          => /\ out[1].Desc = "number_of_snapshots"
             /\ out[1].Value = Len(stats)
             /\ out[2].Desc = "oldest_snapshot_timestamp"
             /\ out[2].Value = IF Len(stats) = 0
                                 THEN 0
                                 ELSE Seconds(stats[1].StartTimeInMillis))
  /\ [][stats' = stats]_vars

\* first element at 1999 ms (1 s), a later element older than it
C7_Witness ==
  /\ RepositoryApplied
  /\ Len(stats) = 2
  /\ stats[1].StartTimeInMillis = 1999
  /\ stats[2].StartTimeInMillis = 100
  /\ out[2].Value = 1
  /\ out[1].Value = 2

\* C8: every response obtained has its body closed exactly once by the
\* fetch that obtained it
C8_BodyClosedOnce ==
  \A p \in Procs :
    /\ Len(bodies[p])
         = Cardinality({ i \in 1..Len(requests[p]) : requests[p][i].res.conn })
    /\ \A i \in 1..Len(bodies[p]) : bodies[p][i] = 1

C8_Witness ==
  /\ pc[1] = "done"
  /\ Len(requests[1]) = 3
  /\ \E i, j \in 2..3 :
       /\ requests[1][i].res.conn /\ requests[1][i].res.status = 500
       /\ requests[1][j].res.conn /\ requests[1][j].res.status = 200
       /\ requests[1][j].res.readOk /\ ~requests[1][j].res.body.wellFormed
  /\ bodies[1] = <<1, 1, 1>>

ExpectedDescriptors ==
  << "snapshot_number_of_indices", "snapshot_start_time_timestamp",
     "snapshot_end_time_timestamp", "snapshot_number_of_failures",
     "snapshot_total_shards", "snapshot_failed_shards",
     "snapshot_successful_shards", "number_of_snapshots",
     "oldest_snapshot_timestamp", "latest_snapshot_timestamp_seconds" >>

IsPrefix(a, b) == Len(a) <= Len(b) /\ a = SubSeq(b, 1, Len(a))

\* C9: every Describe sends the same 10 descriptors, 7 snapshot-level then 3
\* repository-level, one after the other, whatever Collect does between two
\* sends; a send of Describe makes no fetch and no step changes the lists
C9_DescribeIdempotent ==
  /\ [](/\ IsPrefix(descCh, ExpectedDescriptors)
        /\ descI > 0 => Len(descCh) = descI - 1
        /\ (nDescribe > 0 /\ descI = 0) => descCh = ExpectedDescriptors
        /\ [i \in 1..Len(snapshotMetrics) |-> snapshotMetrics[i].Desc]
             = SubSeq(ExpectedDescriptors, 1, 7)
        /\ [i \in 1..Len(repositoryMetrics) |-> repositoryMetrics[i].Desc]
             = SubSeq(ExpectedDescriptors, 8, 10))
  /\ [][(nDescribe' # nDescribe \/ descCh' # descCh)
          => requests' = requests /\ ch' = ch]_vars

\* the second Describe has sent 4 descriptors while the second Collect,
\* after a first one that emitted, is between two sends
C9_Witness ==
  /\ nDescribe = 2
  /\ descI = 5
  /\ cycle[1] = 2
  /\ pc[1] = "emitting"
  /\ sent[1] = 2
  /\ everOk[1] # {}

\* C10: a repository emitted by an earlier invocation that fails or is not
\* in the catalog now has no sample now, what is sent comes from the answers
\* of the invocation itself, and an aborted invocation sends nothing
C10_NoCachingAcrossCycles ==
  \A p \in Procs :
    /\ \A name \in everOk[p] :
         ~DetailOk(p, name) => name \notin SampleRepos(ch[p])
    /\ \A name \in SampleRepos(ch[p]) :
         /\ DetailOk(p, name)
         /\ LET own == DetailValue(p, name).Snapshots
                expected == ExpectedRepositoryLevel(name, own)
                              \o IF own = <<>>
                                   THEN <<>>
                                   ELSE ExpectedSnapshotLevel(name, own[Len(own)])
            IN  /\ IsPrefix(SelectRepo(ch[p], name), expected)
                /\ pc[p] = "done" => SelectRepo(ch[p], name) = expected
    /\ (pc[p] = "aborted" /\ everOk[p] # {}) => ch[p] = <<>>

C10_Witness ==
  /\ cycle[1] = 2
  /\ pc[1] = "done"
  /\ everOk[1] = {Name("R1"), Name("R2")}
  /\ DetailFailed(1, Name("R1"))
  /\ DetailOk(1, Name("R2"))
  /\ SampleRepos(ch[1]) = {Name("R2")}

\* C11: with two invocations interleaved, what each one sends is computed
\* from its own answers only: a repository has samples in an invocation only
\* if that invocation's own detail fetch of it succeeded, and the samples are
\* those of the sequence that invocation decoded
C11_InvocationsShareNothing ==
  \A p \in Procs : \A name \in Repos :
    /\ (pc[p] \in {"emitting", "done"} /\ name \in toEmit[p] \cup SampleRepos(ch[p]))
         => DetailOk(p, name)
    /\ name \in SampleRepos(ch[p])
         => /\ DetailOk(p, name)
            /\ LET own == DetailValue(p, name).Snapshots
                   mine == SelectRepo(ch[p], name)
               IN  /\ Len(mine) <= IF own = <<>> THEN 3 ELSE 10
                   /\ (pc[p] = "done" \/ cur[p] # <<name>>)
                        => Len(mine) = IF own = <<>> THEN 3 ELSE 10
                   /\ IsPrefix(SubSeq(mine, 1, IF Len(mine) < 3 THEN Len(mine) ELSE 3),
                               ExpectedRepositoryLevel(name, own))
    /\ (pc[p] = "aborted" \/ (pc[p] = "done" /\ ~DetailOk(p, name)))
         => SelectRepo(ch[p], name) = <<>>

\* caller 1 is emitting what it fetched while caller 2, whose answers
\* differ, is still fetching
C11_Witness ==
  /\ pc[1] = "emitting"
  /\ SampleRepos(ch[1]) = {Name("R1")}
  /\ DetailValue(1, Name("R1")).Snapshots = <<SnapSuccess, SnapFailed>>
  /\ pc[2] = "fetching"
  /\ DetailFailed(2, Name("R1"))
  /\ todo[2] = {Name("R2")}

\* the order of the phases of one invocation
PhaseStep(from, to) ==
  \/ from \in {"idle", "done", "aborted"} /\ to = "listing"
  \/ from = "listing" /\ to \in {"fetching", "aborted"}
  \/ from = "fetching" /\ to = "emitting"
  \/ from = "emitting" /\ to = "done"

\* C12: the phases follow listing, fetching, emitting, done; aborted is
\* entered from listing only; the catalog is answered before any detail
\* fetch, and every detail fetch is answered before the first sample
C12_PhaseOrder ==
  /\ [][\A p \in Procs :
          /\ pc'[p] # pc[p] => PhaseStep(pc[p], pc'[p])
          /\ Len(requests'[p]) > Len(requests[p]) /\ Len(requests[p]) >= 1
               => pc[p] = "fetching" /\ pc'[p] = "fetching"
          /\ ch'[p] # ch[p] /\ ch'[p] # <<>>
               => pc[p] = "emitting" /\ requests'[p] = requests[p]]_vars
  /\ [](\A p \in Procs :
          /\ Len(requests[p]) >= 2
               => ~FetchFails(CatalogAnswer(p)) /\ pc[p] # "aborted"
          /\ ch[p] # <<>>
               => Len(requests[p]) = 1 + Cardinality(CatalogNames(p)))

\* a detail fetch failed and the invocation is emitting, not aborted
C12_Witness ==
  /\ pc[1] = "emitting"
  /\ DetailFailed(1, Name("R1"))
  /\ DetailOk(1, Name("R2"))
  /\ toEmit[1] = {Name("R2")}
  /\ ch[1] = <<>>

\* C13: whatever the fetches answer, a started invocation reaches done or
\* aborted, and no invocation ends in a panic
C13_CycleTerminates ==
  /\ \A p \in Procs : (pc[p] = "listing") ~> (pc[p] \in {"done", "aborted"})
  /\ [](\A p \in Procs : pc[p] # "panicked")

\* the second invocation is done with a partial sample set: the first detail
\* fetch got a status error, the second a sequence
C13_Witness ==
  /\ cycle[1] = 2
  /\ pc[1] = "done"
  /\ Len(requests[1]) = 3
  /\ requests[1][2].res.conn /\ requests[1][2].res.status = 500
  /\ ~FetchFails(requests[1][3].res)
  /\ Len(ch[1]) = 10

\* C14: the fetcher succeeds exactly when a response came, its status is
\* 200, its body was read and decoded; otherwise it returns the error of
\* the first step that failed, and a body with another status is not decoded
C14_FetcherSuccessIff200 ==
  result # <<>>
    => LET r == result[1]
       IN  /\ r.err.kind = "nil"
                <=> /\ answer.conn
                    /\ answer.status = 200
                    /\ answer.readOk
                    /\ answer.body.wellFormed
           /\ r.err.kind = "nil" => r.data = answer.body.value
           /\ ~answer.conn => r.err.kind = "get" /\ r.data = NoData
           /\ answer.conn /\ answer.status # 200
                => /\ r.err.kind = "status" /\ r.err.code = answer.status
                   /\ r.data = NoData
           /\ answer.conn /\ answer.status = 200 /\ ~answer.readOk
                => r.err.kind = "read" /\ r.data = NoData
           /\ (answer.conn /\ answer.status = 200 /\ answer.readOk
                 /\ ~answer.body.wellFormed)
                => r.err.kind = "decode"

\* status 204 with a body that would decode: an error, nothing decoded
C14_Witness ==
  /\ result # <<>>
  /\ answer.conn
  /\ answer.status = 204
  /\ answer.readOk
  /\ answer.body.wellFormed
  /\ DOMAIN answer.body.value = {Name("R1"), Name("R2")}
  /\ result[1].err.kind = "status"
  /\ result[1].data = NoData

CloseLines(p) == { i \in 1..Len(logs[p]) : logs[p][i].err.kind = "close" }
CloseFailures(p) ==
  { i \in 1..Len(requests[p]) :
      requests[p][i].res.conn /\ ~requests[p][i].res.closeOk }
\* the error the claim expects of a failing answer: the first failing step
OriginalError(res) ==
  IF ~res.conn THEN "get"
  ELSE IF res.status # 200 THEN "status"
  ELSE IF ~res.readOk THEN "read"
  ELSE "decode"

\* C15: a failing Body.Close is logged, once per failure, and changes no
\* result: a fetch that otherwise succeeded still succeeds (catalog not
\* aborted, repository stored and emitted), a fetch that failed keeps its
\* own error
C15_CloseFailureOnlyLogged ==
  \A p \in Procs :
    /\ Cardinality(CloseLines(p)) = Cardinality(CloseFailures(p))
    /\ (CatalogAnswered(p) /\ ~FetchFails(CatalogAnswer(p)))
         => pc[p] # "aborted" /\ DOMAIN srr[p] = CatalogNames(p)
    /\ pc[p] = "aborted"
         => /\ logs[p][Len(logs[p])].err.kind = OriginalError(CatalogAnswer(p))
            /\ logs[p][Len(logs[p])].msg
                 = "failed to fetch and decode snapshot stats, err: "
    /\ \A i \in DetailIndexes(p) : \A name \in Repos :
         requests[p][i].url = TemplateURL(name)
           => /\ name \in DOMAIN mssr[p] <=> ~FetchFails(requests[p][i].res)
              /\ (pc[p] = "done" /\ ~FetchFails(requests[p][i].res))
                   => name \in SampleRepos(ch[p])

\* catalog and R1 both answered well with a failing close: R1 is emitted
C15_Witness ==
  /\ pc[1] = "done"
  /\ ~FetchFails(CatalogAnswer(1)) /\ ~CatalogAnswer(1).closeOk
  /\ CatalogNames(1) = {Name("R1")}
  /\ ~FetchFails(requests[1][2].res) /\ ~requests[1][2].res.closeOk
  /\ SampleRepos(ch[1]) = {Name("R1")}
  /\ Len(logs[1]) = 2

\* a (descriptor, repository) pair of a sample
Pair(sample) == <<sample.Desc, sample.Labels[1]>>
NonEmptyOk(p) ==
  { name \in Repos : DetailOk(p, name) /\ DetailValue(p, name).Snapshots # <<>> }

\* C16: no (descriptor, repository) pair is sent twice by an invocation; a
\* finished invocation sent 3 samples per repository fetched plus 7 per
\* repository with a non-empty sequence; once done nothing more is sent
\* until Collect is called again
C16_NoDuplicateSamples ==
  /\ [](\A p \in Procs :
          /\ \A i, j \in 1..Len(ch[p]) :
               Pair(ch[p][i]) = Pair(ch[p][j]) => i = j
          /\ pc[p] = "done"
               => Len(ch[p])
                    = 3 * Cardinality({ name \in Repos : DetailOk(p, name) })
                      + 7 * Cardinality(NonEmptyOk(p)))
  /\ [][\A p \in Procs :
          pc[p] = "done"
            => \/ ch'[p] = ch[p]
               \/ pc'[p] = "listing" /\ ch'[p] = <<>>]_vars

\* second invocation done, both repositories with two snapshots: 20 samples
C16_Witness ==
  /\ cycle[1] = 2
  /\ pc[1] = "done"
  /\ NonEmptyOk(1) = {Name("R1"), Name("R2")}
  /\ Len(DetailValue(1, Name("R1")).Snapshots) = 2
  /\ Len(DetailValue(1, Name("R2")).Snapshots) = 2
  /\ Len(ch[1]) = 20

====
